---- MODULE Spec2Model ----
(***************************************************************************)
(* A model of chaindexing: the contract address registry, the node         *)
(* election loop of index_states, boot/reset and the reorg bookkeeping,    *)
(* over the operations of PostgresRepo.                                    *)
(*                                                                         *)
(* The store is the set of tables of chaindexing/src/repos/postgres_repo.rs*)
(* Every table is a set of rows (records); serial ids are handed out by    *)
(* per-table sequences.  Each subsystem has its own specification          *)
(* (SpecRegistry, ...) over the same variables.                            *)
(***************************************************************************)
EXTENDS Integers, Sequences, FiniteSets, TLC

VARIABLES
    contract_addresses,     \* table chaindexing_contract_addresses
    contract_address_seq,   \* last id handed out for that table
    inserted_start,         \* history: id -> start_block_number at insertion
    nodes,                  \* table chaindexing_nodes
    node_seq,               \* last id handed out for that table
    reset_counts,           \* table chaindexing_reset_counts (the ids)
    events,                 \* table chaindexing_events
    event_seq,              \* number of event ids drawn so far
    reorged_blocks,         \* table chaindexing_reorged_blocks
    provider,               \* chain -> block -> the hash of the canonical block
    handler,                \* chain -> where its handler runner's tick is
    ingester,               \* replica -> where its ingester's tick is, and its batch
    locks,                  \* chain -> the replica whose ingester holds its lock, or 0
    effects,                \* the user's state: the ids of the events applied, in order
    fetched,                \* what the last get_events of a handler task returned
    pruning,                \* the PruningConfig and its last get_min_block_number
    now,                    \* wall clock, in seconds
    config,                 \* replica -> the Config index_states is called with
    pc,                     \* replica -> where its index_states call is
    result,                 \* replica -> what index_states returned
    current_node,           \* replica -> id of the node row it created, 0 before
    wake,                   \* replica -> when its sleep or interval tick ends
    active_nodes,           \* replica -> the rows get_active_nodes returned
    running,                \* replica -> its NodeTasks have tasks running
    boots,                  \* history: the runs of booting::setup, in order
    killed                  \* history: the kill of the leader, if any

registry_vars == <<contract_addresses, contract_address_seq, inserted_start>>

node_vars == <<nodes, node_seq>>

query_vars == <<fetched, pruning>>

task_vars == <<ingester, locks, effects, query_vars>>

event_vars == <<events, event_seq, reorged_blocks, provider, handler, task_vars>>

replica_vars == <<config, pc, result, current_node, wake, active_nodes, running>>

history_vars == <<boots, killed>>

vars == <<registry_vars, node_vars, reset_counts, event_vars, now, replica_vars,
          history_vars>>

(***************************************************************************)
(* Bounds and input domains                                                *)
(***************************************************************************)
MaxBlock == 1

Blocks == 0..MaxBlock

ChainIds == {1, 2}

ContractNames == {"initial-contract-address", "updated-contract-address"}

\* Addresses are strings; a string is modelled as a sequence of characters,
\* here one address in two spellings.
Addresses == {<<"A", "b">>, <<"a", "b">>}

\* The domain of SpecIngestCursor: one chain, a second address on it.
CursorChainIds == {1}

CursorAddresses == Addresses \cup {<<"c", "d">>}

RECURSIVE SeqFold(_, _, _)
SeqFold(Op(_, _), acc, s) ==
    IF s = <<>> THEN acc ELSE SeqFold(Op, Op(acc, Head(s)), Tail(s))

\* char::to_lowercase on the characters of the model's alphabet
char_to_lowercase(c) ==
    CASE c = "A" -> "a"
      [] c = "B" -> "b"
      [] OTHER -> c

\* str::to_lowercase
to_lowercase(s) == [i \in DOMAIN s |-> char_to_lowercase(s[i])]

(***************************************************************************)
(* Contract address registry                                               *)
(***************************************************************************)

\* UnsavedContractAddress::new(contract_name, address, chain_id,
\* start_block_number): the address is case-folded and the three cursors
\* start at start_block_number.
UnsavedContractAddress_new(contract_name, address, chain_id, start_block_number) ==
    [contract_name |-> contract_name,
     address |-> to_lowercase(address),
     chain_id |-> chain_id,
     start_block_number |-> start_block_number,
     next_block_number_to_ingest_from |-> start_block_number,
     next_block_number_to_handle_from |-> start_block_number,
     next_block_number_for_side_effects |-> start_block_number]

UnsavedContractAddressesOf(chain_ids, addresses) ==
    {UnsavedContractAddress_new(n, a, c, s) :
        n \in ContractNames, a \in addresses, c \in chain_ids, s \in Blocks}

UnsavedContractAddresses == UnsavedContractAddressesOf(ChainIds, Addresses)

CursorUnsavedContractAddresses == UnsavedContractAddressesOf(CursorChainIds, CursorAddresses)

\* The unique index the ON CONFLICT clause names.
ConflictTarget(r) == <<r.chain_id, r.address>>

HasDuplicateTargets(batch) ==
    \E i, j \in DOMAIN batch : i < j /\ ConflictTarget(batch[i]) = ConflictTarget(batch[j])

\* The batches boot hands to upsert_contract_addresses: the addresses of
\* the configured contracts, no (chain_id, address) twice.  (A statement
\* that names one twice is rejected as a whole and writes nothing.)  Such a
\* batch is no longer than the number of distinct pairs.
MaxBatchLen(unsaved) == Cardinality({ConflictTarget(u) : u \in unsaved})

BatchesOf(unsaved) ==
    {batch \in UNION {[1..n -> unsaved] : n \in 1..MaxBatchLen(unsaved)} :
        ~HasDuplicateTargets(batch)}

Batches == BatchesOf(UnsavedContractAddresses)

CursorBatches == BatchesOf(CursorUnsavedContractAddresses)

\* InsertedRow with the cursor columns left to the column default.
InsertedRow_DefaultCursors(unsaved, id) ==
    [id |-> id,
     contract_name |-> unsaved.contract_name,
     address |-> unsaved.address,
     chain_id |-> unsaved.chain_id,
     start_block_number |-> unsaved.start_block_number,
     next_block_number_to_ingest_from |-> 0,
     next_block_number_to_handle_from |-> 0,
     next_block_number_for_side_effects |-> 0]

\* The row an INSERT of `unsaved` creates.
InsertedRow(unsaved, id) ==
    [id |-> id,
     contract_name |-> unsaved.contract_name,
     address |-> unsaved.address,
     chain_id |-> unsaved.chain_id,
     start_block_number |-> unsaved.start_block_number,
     next_block_number_to_ingest_from |-> unsaved.next_block_number_to_ingest_from,
     next_block_number_to_handle_from |-> unsaved.next_block_number_to_handle_from,
     next_block_number_for_side_effects |-> unsaved.next_block_number_for_side_effects]

\* DoUpdate with the handler cursors in the update set.
DoUpdate_AlsoHandlerCursors(row, excluded) ==
    [row EXCEPT !.contract_name = excluded.contract_name,
                !.start_block_number = excluded.start_block_number,
                !.next_block_number_to_handle_from = excluded.next_block_number_to_handle_from,
                !.next_block_number_for_side_effects = excluded.next_block_number_for_side_effects]

\* DoUpdate with the ingest cursor in the update set.
DoUpdate_AlsoIngestCursor(row, excluded) ==
    [row EXCEPT !.contract_name = excluded.contract_name,
                !.start_block_number = excluded.start_block_number,
                !.next_block_number_to_ingest_from = excluded.next_block_number_to_ingest_from]

\* DoUpdate with start_block_number missing from the update set.
DoUpdate_NameOnly(row, excluded) ==
    [row EXCEPT !.contract_name = excluded.contract_name]

\* ON CONFLICT (chain_id, address) DO UPDATE SET contract_name = excluded,
\* start_block_number = excluded
DoUpdate(row, excluded) ==
    [row EXCEPT !.contract_name = excluded.contract_name,
                !.start_block_number = excluded.start_block_number]

\* UpsertOne without the ON CONFLICT clause (and no unique index): a
\* plain INSERT.
UpsertOne_NoConflictClause(st, unsaved) ==
    [rows |-> st.rows \cup {InsertedRow(unsaved, st.seq + 1)},
     seq |-> st.seq + 1]

\* One record of the INSERT ... ON CONFLICT statement; st = [rows, seq].
UpsertOne(st, unsaved) ==
    IF \E r \in st.rows : ConflictTarget(r) = ConflictTarget(unsaved)
    THEN [rows |-> {IF ConflictTarget(r) = ConflictTarget(unsaved)
                    THEN DoUpdate(r, unsaved) ELSE r : r \in st.rows},
          seq |-> st.seq]
    ELSE [rows |-> st.rows \cup {InsertedRow(unsaved, st.seq + 1)},
          seq |-> st.seq + 1]

\* Repo::upsert_contract_addresses as a function of the table.  A batch
\* that names one (chain_id, address) twice makes the statement fail
\* ("cannot affect row a second time"); nothing is written then.
upsert_contract_addresses(st, batch) ==
    IF HasDuplicateTargets(batch) THEN st ELSE SeqFold(UpsertOne, st, batch)

\* Repo::get_all_contract_addresses
get_all_contract_addresses == contract_addresses

Registry == [rows |-> contract_addresses, seq |-> contract_address_seq]

UpsertContractAddresses(batch) ==
    LET st == upsert_contract_addresses(Registry, batch) IN
    /\ contract_addresses' = st.rows
    /\ contract_address_seq' = st.seq

\* Repo::update_next_block_number_to_ingest_from: the row is found by the
\* id of the ContractAddress the caller holds.
update_next_block_number_to_ingest_from(rows, contract_address, block_number) ==
    {IF r.id = contract_address.id
     THEN [r EXCEPT !.next_block_number_to_ingest_from = block_number]
     ELSE r : r \in rows}

\* The ingester's batch for one address (spec 4.D): from = the cursor,
\* to = min(from + blocks_per_batch - 1, S) for the safe head S, skipped
\* when from > S; the commit advances the cursor to to + 1.
IngestBatch(contract_address, to) ==
    /\ contract_address \in contract_addresses
    /\ contract_address.next_block_number_to_ingest_from <= to
    /\ contract_addresses' = update_next_block_number_to_ingest_from(
            contract_addresses, contract_address, to + 1)
    /\ UNCHANGED contract_address_seq

\* The handler runner's pure-handler transaction for an event at
\* block_number (spec 4.E step 3): the event is one that was ingested, and
\* the commit advances next_block_number_to_handle_from past it.
HandleEvent(contract_address, block_number) ==
    /\ contract_address \in contract_addresses
    /\ contract_address.next_block_number_to_handle_from <= block_number
    /\ block_number < contract_address.next_block_number_to_ingest_from
    /\ contract_addresses' =
            {IF r.id = contract_address.id
             THEN [r EXCEPT !.next_block_number_to_handle_from = block_number + 1]
             ELSE r : r \in contract_addresses}
    /\ UNCHANGED contract_address_seq

\* The side-effect handlers' cursor (spec 4.E step 4): the handlers run
\* for an event after its pure handlers committed, and the cursor is
\* advanced after the handler returned.
HandleSideEffect(contract_address, block_number) ==
    /\ contract_address \in contract_addresses
    /\ contract_address.next_block_number_for_side_effects <= block_number
    /\ block_number < contract_address.next_block_number_to_handle_from
    /\ contract_addresses' =
            {IF r.id = contract_address.id
             THEN [r EXCEPT !.next_block_number_for_side_effects = block_number + 1]
             ELSE r : r \in contract_addresses}
    /\ UNCHANGED contract_address_seq

\* Repo::create_contract_address (raw query): INSERT ... ON CONFLICT
\* (chain_id, address) DO NOTHING (spec 4.B).
create_contract_address(st, unsaved) ==
    IF \E r \in st.rows : ConflictTarget(r) = ConflictTarget(unsaved)
    THEN st
    ELSE [rows |-> st.rows \cup {InsertedRow(unsaved, st.seq + 1)},
          seq |-> st.seq + 1]

\* include_contract_in_indexing that registers the address from block 0.
include_contract_in_indexing_StartAtZero(st, event, contract_name, address) ==
    create_contract_address(st,
        UnsavedContractAddress_new(contract_name, address, event.chain_id, 0))

\* include_contract_in_indexing, called by a handler for the event it is
\* handling: chain and start block are the event's.
include_contract_in_indexing(st, event, contract_name, address) ==
    LET chain_id == event.chain_id
        start_block_number == event.block_number
        contract_address ==
            UnsavedContractAddress_new(contract_name, address, chain_id, start_block_number)
    IN  create_contract_address(st, contract_address)

\* The events a handler can be running for: an ingested block of an
\* address of the registry.
HandledEvents ==
    UNION {{[chain_id |-> r.chain_id, block_number |-> b] :
                b \in {x \in Blocks : x < r.next_block_number_to_ingest_from}} :
           r \in contract_addresses}

IncludeContractInIndexing(event, contract_name, address) ==
    LET st == include_contract_in_indexing(Registry, event, contract_name, address) IN
    /\ event \in HandledEvents
    /\ contract_addresses' = st.rows
    /\ contract_address_seq' = st.seq

(***************************************************************************)
(* Events: provider, ingester, reorganizations, handler runner             *)
(***************************************************************************)
Min(S) == CHOOSE x \in S : \A y \in S : x <= y

\* provider.get_logs(from_block, to_block, addresses) (spec 4.C): every
\* address emits one log in every block; a log carries the hash of its block.
get_logs(chain_id, from_block, to_block, addresses) ==
    {[chain_id |-> chain_id, contract_address |-> a, block_number |-> b,
      block_hash |-> provider[chain_id][b]] :
        a \in addresses, b \in from_block..to_block}

\* The chain reorganizes at block_number: the blocks from it on are
\* replaced, and hash differently.
ProviderReorg(chain_id, block_number) ==
    /\ \A b \in Blocks : provider[chain_id][b] = 0
    /\ provider' = [provider EXCEPT ![chain_id] =
            [b \in Blocks |-> IF b >= block_number THEN 1 ELSE 0]]
    /\ UNCHANGED <<events, event_seq, reorged_blocks, handler, task_vars>>

\* create_events that replaces the stored events with the new ones.
create_events_Replaces(rows, new_events) == new_events

\* Repo::create_events
create_events(rows, new_events) == rows \cup new_events

\* delete_events_by_ids with the filter inverted: the listed ids are kept.
delete_events_by_ids_NeAll(rows, ids) == {e \in rows : e.id \in ids}

\* Repo::delete_events_by_ids
delete_events_by_ids(rows, ids) == {e \in rows : e.id \notin ids}

\* Repo::create_reorged_block: the id is serial, handled_at is not set.
create_reorged_block(rows, reorged_block) ==
    rows \cup {[id |-> Cardinality(rows) + 1,
                block_number |-> reorged_block.block_number,
                chain_id |-> reorged_block.chain_id,
                handled_at |-> <<>>]}

\* The blocks of the logs whose block_hash disagrees with a stored event of
\* the same chain at the same block_number (spec 4.D step 3c).
ReorgedBlockNumbers(logs, rows) ==
    {l.block_number : l \in {x \in logs :
        \E e \in rows : /\ e.chain_id = x.chain_id
                        /\ e.block_number = x.block_number
                        /\ e.block_hash /= x.block_hash}}

\* Step 3c: insert the ReorgedBlock of the earliest affected block and
\* delete the stored events of the chain from that block on.
handle_reorg(ev, chain_id, logs) ==
    LET affected == ReorgedBlockNumbers(logs, ev.events)
        earliest == Min(affected)
        ids == {e.id : e \in {x \in ev.events :
                    x.chain_id = chain_id /\ x.block_number >= earliest}}
    IN  IF affected = {} THEN ev
        ELSE [events |-> delete_events_by_ids(ev.events, ids),
              reorged_blocks |-> create_reorged_block(ev.reorged_blocks,
                    [block_number |-> earliest, chain_id |-> chain_id])]

\* Step 3d: the logs decoded to Event rows, each with a fresh id.
DecodedEvents(logs, from_block, seq) ==
    {[id |-> seq + (l.block_number - from_block) + 1,
      chain_id |-> l.chain_id,
      contract_address |-> l.contract_address,
      block_number |-> l.block_number,
      block_hash |-> l.block_hash] : l \in logs}

\* The ingester's batch for one address (spec 4.D steps 3a-3d): fetch the
\* logs of [from, to], handle a reorganization they show, insert the events
\* and advance the cursor to to + 1.
IngestLogs(contract_address, to) ==
    LET chain_id == contract_address.chain_id
        from == contract_address.next_block_number_to_ingest_from
        logs == get_logs(chain_id, from, to, {contract_address.address})
        ev == handle_reorg([events |-> events, reorged_blocks |-> reorged_blocks],
                           chain_id, logs)
    IN  /\ contract_address \in contract_addresses
        /\ from <= to
        /\ events' = create_events(ev.events, DecodedEvents(logs, from, event_seq))
        /\ event_seq' = event_seq + (to - from) + 1
        /\ reorged_blocks' = ev.reorged_blocks
        /\ contract_addresses' = update_next_block_number_to_ingest_from(
                contract_addresses, contract_address, to + 1)
        /\ UNCHANGED <<contract_address_seq, provider, handler, task_vars>>

UnhandledReorgedBlocks(chain_id) ==
    {rb \in reorged_blocks : rb.chain_id = chain_id /\ rb.handled_at = <<>>}

\* The handler runner's tick, step 1 (spec 4.E): for every unhandled
\* ReorgedBlock of the chain, every address of the chain gets
\* next_block_number_to_handle_from = min(cursor, reorged block number), and
\* the ReorgedBlock is marked handled.
RewindTo(cursor, block_numbers) == Min({cursor} \cup block_numbers)

HandleReorgs(chain_id) ==
    LET unhandled == UnhandledReorgedBlocks(chain_id) IN
    /\ handler[chain_id].pc = "sleep"
    /\ contract_addresses' =
            {IF r.chain_id = chain_id
             THEN [r EXCEPT !.next_block_number_to_handle_from =
                        RewindTo(@, {rb.block_number : rb \in unhandled})]
             ELSE r : r \in contract_addresses}
    /\ reorged_blocks' =
            {IF rb \in unhandled THEN [rb EXCEPT !.handled_at = <<now>>] ELSE rb :
                rb \in reorged_blocks}
    /\ handler' = [handler EXCEPT ![chain_id] =
            [pc |-> "handle_events", reorged_blocks |-> {rb.id : rb \in unhandled}]]
    /\ UNCHANGED <<contract_address_seq, events, event_seq, provider, task_vars>>

\* Repo::get_events
get_events(rows, address, from, to) ==
    {e \in rows : /\ e.contract_address = to_lowercase(address)
                  /\ from <= e.block_number
                  /\ e.block_number <= to}

\* Steps 2 and 3 of the tick for one address: an event fetched from the
\* cursor on is handled, and the cursor advances past it.
HandleChainEvent(contract_address, block_number) ==
    /\ handler[contract_address.chain_id].pc = "handle_events"
    /\ \E e \in get_events(events, contract_address.address,
                            contract_address.next_block_number_to_handle_from, MaxBlock) :
            e.block_number = block_number
    /\ HandleEvent(contract_address, block_number)
    /\ UNCHANGED event_vars

\* The tick ends; the runner sleeps handler_rate_ms.
HandlerSleep(chain_id) ==
    /\ handler[chain_id].pc = "handle_events"
    /\ handler' = [handler EXCEPT ![chain_id] = [pc |-> "sleep", reorged_blocks |-> {}]]
    /\ UNCHANGED <<registry_vars, events, event_seq, reorged_blocks, provider, task_vars>>

\* What SpecRegistry and SpecIngestCursor leave alone.
non_registry_vars ==
    <<node_vars, reset_counts, event_vars, now, replica_vars, history_vars>>

InitRegistry ==
    /\ contract_addresses = {}
    /\ contract_address_seq = 0
    /\ inserted_start = <<>>
    /\ nodes = {}
    /\ node_seq = 0
    /\ reset_counts = {}
    /\ events = {}
    /\ event_seq = 0
    /\ reorged_blocks = {}
    /\ provider = <<>>
    /\ handler = <<>>
    /\ ingester = <<>>
    /\ locks = <<>>
    /\ effects = <<>>
    /\ fetched = <<>>
    /\ pruning = <<>>
    /\ now = 0
    /\ config = <<>>
    /\ pc = <<>>
    /\ result = <<>>
    /\ current_node = <<>>
    /\ wake = <<>>
    /\ active_nodes = <<>>
    /\ running = <<>>
    /\ boots = <<>>
    /\ killed = <<>>

\* The registry without the history variable.
NextRegistry ==
    \/ \E batch \in Batches :
            UpsertContractAddresses(batch) /\ UNCHANGED <<inserted_start, non_registry_vars>>
    \/ \E r \in contract_addresses, to \in Blocks :
            IngestBatch(r, to) /\ UNCHANGED <<inserted_start, non_registry_vars>>
    \/ \E e \in HandledEvents, n \in ContractNames, a \in Addresses :
            IncludeContractInIndexing(e, n, a) /\ UNCHANGED <<inserted_start, non_registry_vars>>
    \/ \E r \in contract_addresses, b \in Blocks :
            HandleEvent(r, b) /\ UNCHANGED <<inserted_start, non_registry_vars>>
    \/ \E r \in contract_addresses, b \in Blocks :
            HandleSideEffect(r, b) /\ UNCHANGED <<inserted_start, non_registry_vars>>

SpecRegistry == InitRegistry /\ [][NextRegistry]_vars

\* The history variable inserted_start: every row that appears is recorded
\* with the start_block_number it appears with.
RecordInsertedStart ==
    inserted_start' =
        [id \in {r.id : r \in contract_addresses'} |->
            IF id \in DOMAIN inserted_start
            THEN inserted_start[id]
            ELSE (CHOOSE r \in contract_addresses' : r.id = id).start_block_number]

\* The writers of next_block_number_to_ingest_from and start_block_number,
\* with the history variable kept.
NextIngestCursor ==
    \/ \E batch \in CursorBatches :
            UpsertContractAddresses(batch) /\ RecordInsertedStart /\ UNCHANGED non_registry_vars
    \/ \E r \in contract_addresses, to \in Blocks :
            IngestBatch(r, to) /\ RecordInsertedStart /\ UNCHANGED non_registry_vars
    \/ \E e \in HandledEvents, n \in ContractNames, a \in CursorAddresses :
            IncludeContractInIndexing(e, n, a) /\ RecordInsertedStart
                /\ UNCHANGED non_registry_vars

SpecIngestCursor == InitRegistry /\ [][NextIngestCursor]_vars

(***************************************************************************)
(* Configuration                                                           *)
(***************************************************************************)
NumReplicas == 2

Replicas == 1..NumReplicas

NodeElectionRateSecs == 2

\* validate with the two checks in the other order.
validate_ChainsFirst(cfg) ==
    IF cfg.chains = {} THEN "NoChain"
    ELSE IF cfg.contracts = <<>> THEN "NoContract"
    ELSE "Ok"

\* Config::validate
validate(cfg) ==
    IF cfg.contracts = <<>> THEN "NoContract"
    ELSE IF cfg.chains = {} THEN "NoChain"
    ELSE "Ok"

\* An Option is a sequence: <<>> is None, <<x>> is Some(x).
\* Config::get_node_election_rate_ms
get_node_election_rate_ms(cfg) ==
    IF cfg.node_election_rate_ms = <<>>
    THEN cfg.ingestion_rate_ms
    ELSE cfg.node_election_rate_ms[1]

\* Duration::from_millis on the model's clock, which counts seconds.
Secs(ms) == ms \div 1000

\* A configuration that passes validate: one contract address on chain 1,
\* node_election_rate_ms set, optimization not enabled.
StaticContracts ==
    <<UnsavedContractAddress_new("initial-contract-address", <<"A", "b">>, 1, 0)>>

\* Config::new with the builder calls that set contracts, chains,
\* node_election_rate_ms, max_concurrent_node_count and reset_count.
NewConfig(contracts, chains, max_concurrent_node_count, reset_count) ==
    [contracts |-> contracts,
     chains |-> chains,
     ingestion_rate_ms |-> 30000,
     node_election_rate_ms |-> <<NodeElectionRateSecs * 1000>>,
     reset_count |-> reset_count,
     max_concurrent_node_count |-> max_concurrent_node_count,
     optimization_config |-> <<>>]

ValidConfig(max_concurrent_node_count, reset_count) ==
    NewConfig(StaticContracts, {1}, max_concurrent_node_count, reset_count)

(***************************************************************************)
(* Node registry                                                           *)
(***************************************************************************)

\* Repo::create_node: INSERT ... DEFAULT VALUES; last_active_at defaults to
\* the time of the insert.
create_node(rows, seq) == rows \cup {[id |-> seq + 1, last_active_at |-> now]}

\* Node::get_min_active_at_in_secs: two election intervals before now.
get_min_active_at_in_secs(node_election_rate_ms) ==
    (now * 1000 - 2 * node_election_rate_ms) \div 1000

\* get_active_nodes without the filter on last_active_at.
get_active_nodes_NoFilter(rows, node_election_rate_ms) == rows

\* Repo::get_active_nodes
get_active_nodes(rows, node_election_rate_ms) ==
    {n \in rows : n.last_active_at > get_min_active_at_in_secs(node_election_rate_ms)}

\* Repo::keep_node_active
keep_node_active(rows, node_id) ==
    {IF n.id = node_id THEN [n EXCEPT !.last_active_at = now] ELSE n : n \in rows}

\* The active set (spec 4.F): the first max_concurrent_node_count of the
\* active nodes by id ascending; node ids are given.
ActiveSet(node_ids, max_concurrent_node_count) ==
    {id \in node_ids :
        Cardinality({other \in node_ids : other < id}) < max_concurrent_node_count}

(***************************************************************************)
(* index_states, one call per replica                                      *)
(***************************************************************************)
InLoop(r) ==
    pc[r] \in {"keep_node_active", "get_active_nodes", "orchestrate", "interval_tick"}

\* config.validate()?
Validate(r) ==
    /\ pc[r] = "index_states"
    /\ result' = [result EXCEPT ![r] = validate(config[r])]
    /\ pc' = [pc EXCEPT ![r] = IF validate(config[r]) = "Ok" THEN "create_node" ELSE "returned"]
    /\ UNCHANGED <<registry_vars, node_vars, reset_counts, event_vars, now, config,
                   current_node, wake, active_nodes, running>>

\* booting::setup_nodes (the nodes table, no row), create_node, and the
\* start of the sleep of wait_for_non_leader_nodes_to_abort.
CreateNode(r) ==
    /\ pc[r] = "create_node"
    /\ nodes' = create_node(nodes, node_seq)
    /\ node_seq' = node_seq + 1
    /\ current_node' = [current_node EXCEPT ![r] = node_seq + 1]
    /\ wake' = [wake EXCEPT ![r] = now + Secs(get_node_election_rate_ms(config[r]))]
    /\ pc' = [pc EXCEPT ![r] = "wait"]
    /\ UNCHANGED <<registry_vars, reset_counts, event_vars, now, config, result,
                   active_nodes, running>>

\* wait_for_non_leader_nodes_to_abort returning without having slept.
Wait_NoSleep(r) ==
    /\ pc[r] = "wait"
    /\ pc' = [pc EXCEPT ![r] = "setup"]
    /\ UNCHANGED <<registry_vars, node_vars, reset_counts, event_vars, now, config,
                   result, current_node, wake, active_nodes, running>>

\* The sleep of wait_for_non_leader_nodes_to_abort ends.
Wait(r) ==
    /\ pc[r] = "wait"
    /\ now >= wake[r]
    /\ pc' = [pc EXCEPT ![r] = "setup"]
    /\ UNCHANGED <<registry_vars, node_vars, reset_counts, event_vars, now, config,
                   result, current_node, wake, active_nodes, running>>

\* Repo::get_last_reset_count: the row with the greatest id, if any.
get_last_reset_count(rows) ==
    IF rows = {} THEN <<>> ELSE <<CHOOSE id \in rows : \A other \in rows : other <= id>>

\* Repo::create_reset_count: INSERT ... DEFAULT VALUES
create_reset_count(rows) ==
    rows \cup {(IF rows = {} THEN 0 ELSE get_last_reset_count(rows)[1]) + 1}

\* The count a stored ResetCount stands for: its id; 0 when none is stored.
LastResetCount(rows) ==
    IF get_last_reset_count(rows) = <<>> THEN 0 ELSE get_last_reset_count(rows)[1]

\* booting::setup decides to reset (spec 4.H (3)).
ShouldReset(cfg, rows) == cfg.reset_count > LastResetCount(rows)

\* booting::setup (spec 4.H): the reset, when due, wipes events, reorged
\* blocks and the contract addresses with their cursors and inserts one
\* ResetCount; then the static contracts are upserted.  The task of the
\* election loop is spawned next, and its interval starts.
Setup(r) ==
    LET do_reset == ShouldReset(config[r], reset_counts)
        registry == IF do_reset
                    THEN [rows |-> {}, seq |-> contract_address_seq]
                    ELSE Registry
        st == upsert_contract_addresses(registry, config[r].contracts)
    IN  /\ pc[r] = "setup"
        /\ reset_counts' = IF do_reset THEN create_reset_count(reset_counts) ELSE reset_counts
        /\ events' = IF do_reset THEN {} ELSE events
        /\ reorged_blocks' = IF do_reset THEN {} ELSE reorged_blocks
        /\ contract_addresses' = st.rows
        /\ contract_address_seq' = st.seq
        /\ result' = [result EXCEPT ![r] = "Ok"]
        /\ wake' = [wake EXCEPT ![r] = now]
        /\ pc' = [pc EXCEPT ![r] = "keep_node_active"]
        /\ UNCHANGED <<inserted_start, node_vars, event_seq, provider, handler, task_vars, now, config,
                       current_node, active_nodes, running>>

\* ChaindexingRepo::keep_node_active(conn, &current_node)
KeepNodeActive(r) ==
    /\ pc[r] = "keep_node_active"
    /\ nodes' = keep_node_active(nodes, current_node[r])
    /\ pc' = [pc EXCEPT ![r] = "get_active_nodes"]
    /\ UNCHANGED <<registry_vars, node_seq, reset_counts, event_vars, now, config, result,
                   current_node, wake, active_nodes, running>>

\* ChaindexingRepo::get_active_nodes(conn, node_election_rate_ms); of the
\* rows the orchestrator uses the ids.
GetActiveNodes(r) ==
    /\ pc[r] = "get_active_nodes"
    /\ active_nodes' = [active_nodes EXCEPT ![r] =
            {n.id : n \in get_active_nodes(nodes, get_node_election_rate_ms(config[r]))}]
    /\ pc' = [pc EXCEPT ![r] = "orchestrate"]
    /\ UNCHANGED <<registry_vars, node_vars, reset_counts, event_vars, now, config, result,
                   current_node, wake, running>>

\* orchestrate that starts the tasks and never stops them.
orchestrate_NeverStops(is_running, node_id, active_node_ids, max_concurrent_node_count) ==
    is_running \/ node_id \in ActiveSet(active_node_ids, max_concurrent_node_count)

\* NodeTasks::orchestrate without optimization (spec 4.G): start the tasks
\* when this node is in the active set and none run, stop them when it is
\* not and some run.
orchestrate(is_running, node_id, active_node_ids, max_concurrent_node_count) ==
    LET am_i_active == node_id \in ActiveSet(active_node_ids, max_concurrent_node_count)
    IN  IF am_i_active /\ ~is_running THEN TRUE
        ELSE IF ~am_i_active /\ is_running THEN FALSE
        ELSE is_running

Orchestrate(r) ==
    /\ pc[r] = "orchestrate"
    /\ running' = [running EXCEPT ![r] =
            orchestrate(running[r], current_node[r], active_nodes[r],
                        config[r].max_concurrent_node_count)]
    /\ pc' = [pc EXCEPT ![r] = "interval_tick"]
    /\ UNCHANGED <<registry_vars, node_vars, reset_counts, event_vars, now, config, result,
                   current_node, wake, active_nodes>>

\* interval.tick(): the first tick completes at once, the later ones one
\* period after the one before.
IntervalTick(r) ==
    /\ pc[r] = "interval_tick"
    /\ now >= wake[r]
    /\ wake' = [wake EXCEPT ![r] = wake[r] + Secs(get_node_election_rate_ms(config[r]))]
    /\ pc' = [pc EXCEPT ![r] = "keep_node_active"]
    /\ UNCHANGED <<registry_vars, node_vars, reset_counts, event_vars, now, config, result,
                   current_node, active_nodes, running>>

\* The replica's process dies; its tasks die with it, its node row stays.
Kill(r) ==
    /\ pc[r] \notin {"index_states", "returned", "dead"}
    /\ pc' = [pc EXCEPT ![r] = "dead"]
    /\ running' = [running EXCEPT ![r] = FALSE]
    /\ UNCHANGED <<registry_vars, node_vars, reset_counts, event_vars, now, config, result,
                   current_node, wake, active_nodes>>

\* How long the clock runs: a boot, and three election periods after it.
MaxTime == 4 * NodeElectionRateSecs + 1

\* A second passes, up to max_time.
TickTo(max_time) ==
    /\ now < max_time
    /\ now' = now + 1
    /\ UNCHANGED <<registry_vars, node_vars, reset_counts, event_vars, replica_vars>>

\* Nothing bounds how long a step of a replica takes.
Tick == TickTo(MaxTime)

\* A replica has a step to take at this instant: its sleep or its interval
\* tick has ended, or it is between two awaits that take no time.
Due(r) ==
    \/ pc[r] \in {"create_node", "setup", "keep_node_active", "get_active_nodes",
                  "orchestrate"}
    \/ pc[r] \in {"wait", "interval_tick"} /\ now >= wake[r]

\* A second passes once every replica has taken the steps that are due:
\* the replicas keep ticking every node_election_rate_ms.
TickPunctual ==
    /\ \A r \in Replicas : ~Due(r)
    /\ Tick

\* The same while the replicas boot: the clock runs for the sleep of
\* wait_for_non_leader_nodes_to_abort and one second more.
BootMaxTime == NodeElectionRateSecs + 1

BootTick ==
    /\ \A r \in Replicas : ~Due(r)
    /\ TickTo(BootMaxTime)

\* The leader dies: the replica whose node has the lowest id among the
\* replicas that run tasks, while more replicas heartbeat than
\* max_concurrent_node_count.  Recorded once, with the time and the replicas
\* that ran tasks.
IsLeader(r) ==
    /\ running[r]
    /\ \A other \in Replicas : running[other] => current_node[r] <= current_node[other]

KillLeader(r) ==
    /\ killed = <<>>
    /\ IsLeader(r)
    /\ Cardinality({h \in Replicas : InLoop(h)}) > config[r].max_concurrent_node_count
    /\ Kill(r)
    /\ killed' = <<[replica |-> r, at |-> now,
                    running |-> {h \in Replicas : running[h]}]>>
    /\ UNCHANGED boots

\* An ingester between two ticks.
IdleIngester ==
    [pc |-> "sleep", chain_id |-> 0, page |-> {}, group |-> {}, to |-> 0, logs |-> {}]

\* No ingester has a batch, no chain is locked, no handler was called.
InitTasks ==
    /\ ingester = [r \in Replicas |-> IdleIngester]
    /\ locks = [chain_id \in ChainIds |-> 0]
    /\ effects = <<>>
    /\ fetched = <<>>
    /\ pruning = <<>>

InitStore ==
    /\ contract_addresses = {}
    /\ contract_address_seq = 0
    /\ inserted_start = <<>>
    /\ nodes = {}
    /\ node_seq = 0
    /\ reset_counts = {}
    /\ events = {}
    /\ event_seq = 0
    /\ reorged_blocks = {}
    /\ provider = [chain_id \in ChainIds |-> [b \in Blocks |-> 0]]
    /\ handler = [chain_id \in ChainIds |-> [pc |-> "sleep", reorged_blocks |-> {}]]
    /\ InitTasks
    /\ now = 0

InitReplicas ==
    /\ pc = [r \in Replicas |-> "index_states"]
    /\ result = [r \in Replicas |-> "None"]
    /\ current_node = [r \in Replicas |-> 0]
    /\ wake = [r \in Replicas |-> 0]
    /\ active_nodes = [r \in Replicas |-> {}]
    /\ running = [r \in Replicas |-> FALSE]
    /\ boots = <<>>
    /\ killed = <<>>

\* Replicas of one deployment: the same valid configuration everywhere,
\* with fewer nodes allowed to run tasks than there are replicas.
MaxConcurrentNodeCount == 1

InitNodes ==
    /\ InitStore
    /\ InitReplicas
    /\ config = [r \in Replicas |-> ValidConfig(MaxConcurrentNodeCount, 0)]

\* The election loops of the replicas with a clock that does not wait for
\* them: a replica can be late by any time.
NextNodes ==
    \/ \E r \in Replicas : Validate(r) /\ UNCHANGED history_vars
    \/ \E r \in Replicas : CreateNode(r) /\ UNCHANGED history_vars
    \/ \E r \in Replicas : Wait(r) /\ UNCHANGED history_vars
    \/ \E r \in Replicas : Setup(r) /\ UNCHANGED history_vars
    \/ \E r \in Replicas : KeepNodeActive(r) /\ UNCHANGED history_vars
    \/ \E r \in Replicas : GetActiveNodes(r) /\ UNCHANGED history_vars
    \/ \E r \in Replicas : Orchestrate(r) /\ UNCHANGED history_vars
    \/ \E r \in Replicas : IntervalTick(r) /\ UNCHANGED history_vars
    \/ Tick /\ UNCHANGED history_vars

SpecNodes == InitNodes /\ [][NextNodes]_vars

\* Two replicas that can be late by any time, observed for two election
\* rates after the first of them started: long enough for a replica to be
\* elected in the absence of the other one and to be stopped at its return.
LateReplicas == {1, 2}

LateMaxTime == 2 * NodeElectionRateSecs + 1

NextLate ==
    \/ \E r \in LateReplicas : Validate(r) /\ UNCHANGED history_vars
    \/ \E r \in LateReplicas : CreateNode(r) /\ UNCHANGED history_vars
    \/ \E r \in LateReplicas : Wait(r) /\ UNCHANGED history_vars
    \/ \E r \in LateReplicas : Setup(r) /\ UNCHANGED history_vars
    \/ \E r \in LateReplicas : KeepNodeActive(r) /\ UNCHANGED history_vars
    \/ \E r \in LateReplicas : GetActiveNodes(r) /\ UNCHANGED history_vars
    \/ \E r \in LateReplicas : Orchestrate(r) /\ UNCHANGED history_vars
    \/ \E r \in LateReplicas : IntervalTick(r) /\ UNCHANGED history_vars
    \/ TickTo(LateMaxTime) /\ UNCHANGED history_vars

SpecLate == InitNodes /\ [][NextLate]_vars

\* The election loops of replicas that tick on time, and the death of the
\* leader.
NextElection ==
    \/ \E r \in Replicas : Validate(r) /\ UNCHANGED history_vars
    \/ \E r \in Replicas : CreateNode(r) /\ UNCHANGED history_vars
    \/ \E r \in Replicas : Wait(r) /\ UNCHANGED history_vars
    \/ \E r \in Replicas : Setup(r) /\ UNCHANGED history_vars
    \/ \E r \in Replicas : KeepNodeActive(r) /\ UNCHANGED history_vars
    \/ \E r \in Replicas : GetActiveNodes(r) /\ UNCHANGED history_vars
    \/ \E r \in Replicas : Orchestrate(r) /\ UNCHANGED history_vars
    \/ \E r \in Replicas : IntervalTick(r) /\ UNCHANGED history_vars
    \/ \E r \in Replicas : KillLeader(r)
    \/ TickPunctual /\ UNCHANGED history_vars

SpecElection == InitNodes /\ [][NextElection]_vars

\* What the ingester and the handler runner leave alone.
non_chain_vars ==
    <<inserted_start, node_vars, reset_counts, now, replica_vars, history_vars>>

\* The configurations index_states is called with: a valid one, and the
\* ones validate rejects.
BootConfigs ==
    {ValidConfig(MaxConcurrentNodeCount, 0),
     NewConfig(<<>>, {}, MaxConcurrentNodeCount, 0),
     NewConfig(<<>>, {1}, MaxConcurrentNodeCount, 0),
     NewConfig(StaticContracts, {}, MaxConcurrentNodeCount, 0)}

InitBoot ==
    /\ InitStore
    /\ InitReplicas
    /\ config \in [Replicas -> BootConfigs]

\* The history variable boots: what a run of booting::setup found and did.
RecordBoot(r) ==
    boots' = Append(boots,
        [replica |-> r,
         reset_count |-> config[r].reset_count,
         last_reset_count |-> LastResetCount(reset_counts),
         reset_counts_appended |-> Cardinality(reset_counts' \ reset_counts),
         events_deleted |-> Cardinality(events \ events'),
         events_left |-> Cardinality(events'),
         reorged_blocks_left |-> Cardinality(reorged_blocks'),
         cursors_left |-> Cardinality({ca \in contract_addresses' :
                \/ ca.next_block_number_to_handle_from /= ca.start_block_number
                \/ ca.next_block_number_for_side_effects /= ca.start_block_number}),
         nodes_untouched |-> nodes' = nodes])

\* index_states on every replica, each with its own configuration.
NextBoot ==
    \/ \E r \in Replicas : Validate(r) /\ UNCHANGED history_vars
    \/ \E r \in Replicas : CreateNode(r) /\ UNCHANGED history_vars
    \/ \E r \in Replicas : Wait(r) /\ UNCHANGED history_vars
    \/ \E r \in Replicas : Setup(r) /\ RecordBoot(r) /\ UNCHANGED killed
    \/ \E r \in Replicas : KeepNodeActive(r) /\ UNCHANGED history_vars
    \/ \E r \in Replicas : GetActiveNodes(r) /\ UNCHANGED history_vars
    \/ \E r \in Replicas : Orchestrate(r) /\ UNCHANGED history_vars
    \/ \E r \in Replicas : IntervalTick(r) /\ UNCHANGED history_vars
    \/ BootTick /\ UNCHANGED history_vars

SpecBoot == InitBoot /\ [][NextBoot]_vars

\* The deployments of an operator who resets: every replica has a valid
\* configuration with some reset_count.
MaxResetCount == 2

ResetConfigs ==
    {ValidConfig(MaxConcurrentNodeCount, reset_count) : reset_count \in 0..MaxResetCount}

InitReset ==
    /\ InitStore
    /\ InitReplicas
    /\ config \in [Replicas -> ResetConfigs]

\* index_states on every replica, and the ingester and the handler runner
\* of the replicas that run tasks.
NextReset ==
    \/ \E r \in Replicas : Validate(r) /\ UNCHANGED history_vars
    \/ \E r \in Replicas : CreateNode(r) /\ UNCHANGED history_vars
    \/ \E r \in Replicas : Wait(r) /\ UNCHANGED history_vars
    \/ \E r \in Replicas : Setup(r) /\ RecordBoot(r) /\ UNCHANGED killed
    \/ \E r \in Replicas : KeepNodeActive(r) /\ UNCHANGED history_vars
    \/ \E r \in Replicas : GetActiveNodes(r) /\ UNCHANGED history_vars
    \/ \E r \in Replicas : Orchestrate(r) /\ UNCHANGED history_vars
    \/ \E r \in Replicas : IntervalTick(r) /\ UNCHANGED history_vars
    \/ \E r \in Replicas, ca \in contract_addresses, to \in Blocks :
            /\ running[r]
            /\ IngestLogs(ca, to)
            /\ UNCHANGED non_chain_vars
    \/ \E r \in Replicas, ca \in contract_addresses, b \in Blocks :
            /\ running[r]
            /\ HandleEvent(ca, b)
            /\ UNCHANGED <<inserted_start, non_registry_vars>>
    \/ BootTick /\ UNCHANGED history_vars

SpecReset == InitReset /\ [][NextReset]_vars

\* The registry of a deployment that indexes two contracts on chain 1, as
\* booting::setup leaves it.
ReorgChainIds == {1}

ReorgContracts ==
    <<UnsavedContractAddress_new("initial-contract-address", <<"a", "b">>, 1, 0),
      UnsavedContractAddress_new("initial-contract-address", <<"c", "d">>, 1, 0)>>

InitReorg ==
    LET st == upsert_contract_addresses([rows |-> {}, seq |-> 0], ReorgContracts) IN
    /\ contract_addresses = st.rows
    /\ contract_address_seq = st.seq
    /\ inserted_start = <<>>
    /\ nodes = {}
    /\ node_seq = 0
    /\ reset_counts = {}
    /\ events = {}
    /\ event_seq = 0
    /\ reorged_blocks = {}
    /\ provider = [chain_id \in ChainIds |-> [b \in Blocks |-> 0]]
    /\ handler = [chain_id \in ChainIds |-> [pc |-> "sleep", reorged_blocks |-> {}]]
    /\ InitTasks
    /\ now = 0
    /\ InitReplicas
    /\ config = [r \in Replicas |-> ValidConfig(MaxConcurrentNodeCount, 0)]

\* The ingesters and handler runners of the chains, and the chains
\* themselves.
NextReorg ==
    \/ \E chain_id \in ReorgChainIds, b \in Blocks :
            ProviderReorg(chain_id, b) /\ UNCHANGED <<registry_vars, non_chain_vars>>
    \/ \E r \in contract_addresses, to \in Blocks :
            IngestLogs(r, to) /\ UNCHANGED non_chain_vars
    \/ \E chain_id \in ReorgChainIds :
            HandleReorgs(chain_id) /\ UNCHANGED non_chain_vars
    \/ \E r \in contract_addresses, b \in Blocks :
            HandleChainEvent(r, b) /\ UNCHANGED non_chain_vars
    \/ \E chain_id \in ReorgChainIds :
            HandlerSleep(chain_id) /\ UNCHANGED non_chain_vars

SpecReorg == InitReorg /\ [][NextReorg]_vars

(***************************************************************************)
(* The ingesters of the replicas that run tasks                            *)
(***************************************************************************)
\* The chain of the ingesters: the factory <<"a", "b">> logs in every
\* block; <<"c", "d">>, the contract it creates, logs from block 1 on.
Emits(address, block_number) == address = <<"a", "b">> \/ block_number > 0

\* eth_getLogs: the logs the contracts emitted in the window.
emitted_logs(chain_id, from_block, to_block, addresses) ==
    {l \in get_logs(chain_id, from_block, to_block, addresses) :
        Emits(l.contract_address, l.block_number)}

\* Event.log_index: the position of a log in its block; the factory's log
\* comes first.
log_index(l) == IF l.contract_address = <<"a", "b">> THEN 0 ELSE 1

\* Event.transaction_hash: the transaction is the one of that contract in
\* that block of that branch.
transaction_hash(l) == <<l.block_number, l.block_hash, l.contract_address>>

\* The secondary uniqueness of chaindexing_events.
UniqueKey(e) == <<transaction_hash(e), log_index(e), e.chain_id>>

\* The order of the events of a chain: (block_number, log_index).
OrderedBefore(e1, e2) ==
    \/ e1.block_number < e2.block_number
    \/ e1.block_number = e2.block_number /\ log_index(e1) < log_index(e2)

\* Events::new: one event with a fresh id per log.
Events_new(logs, seq) ==
    {[id |-> seq + 1 + Cardinality({k \in logs : OrderedBefore(k, l)}),
      chain_id |-> l.chain_id,
      contract_address |-> l.contract_address,
      block_number |-> l.block_number,
      block_hash |-> l.block_hash] : l \in logs}

\* The insert of create_events is refused by the unique index.
ViolatesUnique(rows, new_events) ==
    \E e \in new_events : \E f \in rows : UniqueKey(e) = UniqueKey(f)

\* The store operation of a batch that fails, if any.
Failures == {"none", "create_events", "update_next_block_number_to_ingest_from"}

RECURSIVE UpdateCursors(_, _, _)
UpdateCursors(rows, group, block_number) ==
    IF group = {} THEN rows
    ELSE LET contract_address == CHOOSE a \in group : TRUE IN
         UpdateCursors(
            update_next_block_number_to_ingest_from(rows, contract_address, block_number),
            group \ {contract_address}, block_number)

\* The operations an ingester runs in the transaction of a batch: the
\* store they leave and whether they all succeeded.
ingest_events(st, new_events, group, to, failure) ==
    LET created == [st EXCEPT !.events = create_events(st.events, new_events)]
        updated == [created EXCEPT !.contract_addresses =
                        UpdateCursors(created.contract_addresses, group, to + 1)]
    IN  IF failure = "create_events" \/ ViolatesUnique(st.events, new_events)
        THEN [ok |-> FALSE, st |-> st]
        ELSE IF failure = "update_next_block_number_to_ingest_from"
        THEN [ok |-> FALSE, st |-> created]
        ELSE [ok |-> TRUE, st |-> updated]

\* run_in_transaction that keeps what the operations wrote before the
\* failing one.
run_in_transaction_NoRollback(st, ops) == ops.st

\* run_in_transaction: conn.transaction commits when the operations return
\* Ok and rolls back otherwise.
run_in_transaction(st, ops) == IF ops.ok THEN ops.st ELSE st

\* get_contract_addresses_stream_by_chain: the rows of the chain.
get_contract_addresses_stream_by_chain(rows, chain_id) ==
    {r \in rows : r.chain_id = chain_id}

\* An ingester's tick opens the stream of its chain and reads a page.
OpenStream(r, chain_id) ==
    /\ running[r]
    /\ ingester[r].pc = "sleep"
    /\ ingester' = [ingester EXCEPT ![r] =
            [IdleIngester EXCEPT
                !.pc = "page",
                !.chain_id = chain_id,
                !.page = get_contract_addresses_stream_by_chain(contract_addresses, chain_id)]]
    /\ UNCHANGED <<registry_vars, events, event_seq, reorged_blocks, provider, handler,
                   locks, effects, query_vars>>

\* A batch that starts without the lock of its chain.
StartBatch_NoLock(r, from, to) ==
    LET ing == ingester[r]
        group == {a \in ing.page : a.next_block_number_to_ingest_from = from}
    IN  /\ running[r]
        /\ ing.pc = "page"
        /\ group /= {}
        /\ from <= to
        /\ locks' = [locks EXCEPT ![ing.chain_id] = r]
        /\ ingester' = [ingester EXCEPT ![r] =
                [ing EXCEPT
                    !.pc = "batch",
                    !.group = group,
                    !.to = to,
                    !.logs = emitted_logs(ing.chain_id, from, to,
                                          {a.address : a \in group})]]
        /\ UNCHANGED <<registry_vars, events, event_seq, reorged_blocks, provider, handler,
                       effects, query_vars>>

\* The ingester starts a batch for the addresses of its page that share
\* the cursor from: it takes the lock of the chain and fetches the logs of
\* the window.
StartBatch(r, from, to) ==
    LET ing == ingester[r]
        group == {a \in ing.page : a.next_block_number_to_ingest_from = from}
    IN  /\ running[r]
        /\ ing.pc = "page"
        /\ group /= {}
        /\ from <= to
        /\ locks[ing.chain_id] = 0
        /\ locks' = [locks EXCEPT ![ing.chain_id] = r]
        /\ ingester' = [ingester EXCEPT ![r] =
                [ing EXCEPT
                    !.pc = "batch",
                    !.group = group,
                    !.to = to,
                    !.logs = emitted_logs(ing.chain_id, from, to,
                                          {a.address : a \in group})]]
        /\ UNCHANGED <<registry_vars, events, event_seq, reorged_blocks, provider, handler,
                       effects, query_vars>>

\* The ingester persists its batch in one transaction and releases the
\* lock; a batch that failed ends the tick.
CommitBatch(r, failure) ==
    LET ing == ingester[r]
        ev == handle_reorg([events |-> events, reorged_blocks |-> reorged_blocks],
                           ing.chain_id, ing.logs)
        st == [events |-> ev.events, contract_addresses |-> contract_addresses]
        new_events == Events_new(ing.logs, event_seq)
        ops == ingest_events(st, new_events, ing.group, ing.to, failure)
        committed == run_in_transaction(st, ops)
    IN  /\ ing.pc = "batch"
        /\ events' = committed.events
        /\ contract_addresses' = committed.contract_addresses
        /\ reorged_blocks' = ev.reorged_blocks
        /\ event_seq' = IF ops.ok THEN event_seq + Cardinality(new_events) ELSE event_seq
        /\ locks' = [locks EXCEPT ![ing.chain_id] = 0]
        /\ ingester' = [ingester EXCEPT ![r] =
                IF ops.ok THEN IdleIngester ELSE [ing EXCEPT !.pc = "failed"]]
        /\ UNCHANGED <<contract_address_seq, inserted_start, provider, handler, effects, query_vars>>

\* The stream ends without a batch.
CloseStream(r) ==
    /\ ingester[r].pc = "page"
    /\ ingester' = [ingester EXCEPT ![r] = IdleIngester]
    /\ UNCHANGED <<registry_vars, events, event_seq, reorged_blocks, provider, handler,
                   locks, effects, query_vars>>

\* The ingester whose batch failed runs again.
RestartIngester(r) ==
    /\ ingester[r].pc = "failed"
    /\ ingester' = [ingester EXCEPT ![r] = IdleIngester]
    /\ UNCHANGED <<registry_vars, events, event_seq, reorged_blocks, provider, handler,
                   locks, effects, query_vars>>

IngesterContracts ==
    <<UnsavedContractAddress_new("initial-contract-address", <<"a", "b">>, 1, 0)>>

IngesterChainIds == {1}

\* The replicas whose ingesters take steps: two of them interleave.
IngesterReplicas == {1, 2}

\* Every replica was elected and runs its tasks: the configuration lets
\* as many nodes run as there are replicas.
InitIngesters ==
    LET st == upsert_contract_addresses([rows |-> {}, seq |-> 0], IngesterContracts) IN
    /\ contract_addresses = st.rows
    /\ contract_address_seq = st.seq
    /\ inserted_start = <<>>
    /\ nodes = {[id |-> r, last_active_at |-> NodeElectionRateSecs] : r \in Replicas}
    /\ node_seq = NumReplicas
    /\ reset_counts = {}
    /\ events = {}
    /\ event_seq = 0
    /\ reorged_blocks = {}
    /\ provider = [chain_id \in ChainIds |-> [b \in Blocks |-> 0]]
    /\ handler = [chain_id \in ChainIds |-> [pc |-> "sleep", reorged_blocks |-> {}]]
    /\ InitTasks
    /\ now = NodeElectionRateSecs
    /\ config = [r \in Replicas |->
            NewConfig(IngesterContracts, IngesterChainIds, NumReplicas, 0)]
    /\ pc = [r \in Replicas |-> "interval_tick"]
    /\ result = [r \in Replicas |-> "Ok"]
    /\ current_node = [r \in Replicas |-> r]
    /\ wake = [r \in Replicas |-> 2 * NodeElectionRateSecs]
    /\ active_nodes = [r \in Replicas |-> Replicas]
    /\ running = [r \in Replicas |-> TRUE]
    /\ boots = <<>>
    /\ killed = <<>>

non_ingester_vars ==
    <<node_vars, reset_counts, now, replica_vars, history_vars>>

\* The ingesters of the replicas on one chain, and the handler that
\* registers the contract the factory created.
NextIngesters ==
    \/ \E r \in IngesterReplicas, chain_id \in IngesterChainIds :
            OpenStream(r, chain_id) /\ UNCHANGED non_ingester_vars
    \/ \E r \in IngesterReplicas, from \in Blocks, to \in Blocks :
            StartBatch(r, from, to) /\ UNCHANGED non_ingester_vars
    \/ \E r \in IngesterReplicas, failure \in Failures :
            CommitBatch(r, failure) /\ UNCHANGED non_ingester_vars
    \/ \E r \in IngesterReplicas :
            CloseStream(r) /\ UNCHANGED non_ingester_vars
    \/ \E r \in IngesterReplicas :
            RestartIngester(r) /\ UNCHANGED non_ingester_vars
    \/ \E e \in HandledEvents, contract_name \in ContractNames :
            /\ IncludeContractInIndexing(e, contract_name, <<"c", "d">>)
            /\ UNCHANGED <<inserted_start, event_vars, non_ingester_vars>>

SpecIngesters == InitIngesters /\ [][NextIngesters]_vars

(***************************************************************************)
(* The handler runner of a chain, with failing handlers                    *)
(***************************************************************************)
\* The events the runner fetched and has not handled: those at or above
\* the handler cursor of their address.
EventsToHandle(chain_id) ==
    UNION {get_events(events, a.address, a.next_block_number_to_handle_from, MaxBlock) :
           a \in get_contract_addresses_stream_by_chain(contract_addresses, chain_id)}

\* The first of them in the order (block_number, log_index).
NextEventToHandle(chain_id) ==
    CHOOSE e \in EventsToHandle(chain_id) :
        \A f \in EventsToHandle(chain_id) : f = e \/ OrderedBefore(e, f)

\* What fails in the transaction of an event, if anything.
HandlerFailures == {"none", "handle_event", "update_next_block_number_to_handle_from"}

update_next_block_number_to_handle_from(rows, address, chain_id, block_number) ==
    {IF r.address = address /\ r.chain_id = chain_id
     THEN [r EXCEPT !.next_block_number_to_handle_from = block_number]
     ELSE r : r \in rows}

\* The operations of the transaction of one event: the pure handlers
\* change the user's state, then the cursor of the event's address moves
\* past the event.
handle_event(st, event, failure) ==
    LET handled == [st EXCEPT !.effects = Append(st.effects, event.id)]
        advanced == [handled EXCEPT !.contract_addresses =
                        update_next_block_number_to_handle_from(
                            handled.contract_addresses, event.contract_address,
                            event.chain_id, event.block_number + 1)]
    IN  IF failure = "handle_event"
        THEN [ok |-> FALSE, st |-> st]
        ELSE IF failure = "update_next_block_number_to_handle_from"
        THEN [ok |-> FALSE, st |-> handled]
        ELSE [ok |-> TRUE, st |-> advanced]

\* Step 3 of a tick for the next event: on success the transaction
\* commits, on failure it rolls back and the tick stops.
HandleNextEvent(chain_id, failure) ==
    LET st == [effects |-> effects, contract_addresses |-> contract_addresses]
        ops == handle_event(st, NextEventToHandle(chain_id), failure)
        committed == run_in_transaction(st, ops)
    IN  /\ handler[chain_id].pc = "handle_events"
        /\ EventsToHandle(chain_id) /= {}
        /\ effects' = committed.effects
        /\ contract_addresses' = committed.contract_addresses
        /\ handler' = IF ops.ok THEN handler
                      ELSE [handler EXCEPT ![chain_id].pc = "failed"]
        /\ UNCHANGED <<contract_address_seq, inserted_start, events, event_seq,
                       reorged_blocks, provider, ingester, locks, query_vars>>

\* The tick that stopped on a failure is over; the next one retries.
HandlerRetry(chain_id) ==
    /\ handler[chain_id].pc = "failed"
    /\ handler' = [handler EXCEPT ![chain_id] = [pc |-> "sleep", reorged_blocks |-> {}]]
    /\ UNCHANGED <<registry_vars, events, event_seq, reorged_blocks, provider, task_vars>>

\* The ingester and the handler runner of one chain without
\* reorganizations.
NextHandlers ==
    \/ \E r \in contract_addresses, to \in Blocks :
            IngestLogs(r, to) /\ UNCHANGED non_chain_vars
    \/ \E chain_id \in ReorgChainIds :
            HandleReorgs(chain_id) /\ UNCHANGED non_chain_vars
    \/ \E chain_id \in ReorgChainIds, failure \in HandlerFailures :
            HandleNextEvent(chain_id, failure) /\ UNCHANGED non_chain_vars
    \/ \E chain_id \in ReorgChainIds :
            HandlerRetry(chain_id) /\ UNCHANGED non_chain_vars
    \/ \E chain_id \in ReorgChainIds :
            HandlerSleep(chain_id) /\ UNCHANGED non_chain_vars

SpecHandlers == InitReorg /\ [][NextHandlers]_vars

(***************************************************************************)
(* get_events, called by the handler tasks of two chains                   *)
(***************************************************************************)
\* .load(conn) of a query without ORDER BY: the rows, in an order the
\* store chooses.
load(rows) ==
    {s \in [1..Cardinality(rows) -> rows] :
        \A i, j \in DOMAIN s : i /= j => s[i] /= s[j]}

\* The handler task of a chain fetches the events of an address of its
\* chain in a window of blocks.
GetEvents(chain_id, contract_address, from, to) ==
    /\ contract_address \in get_contract_addresses_stream_by_chain(contract_addresses, chain_id)
    /\ from <= to
    /\ \E s \in load(get_events(events, contract_address.address, from, to)) :
            fetched' = <<[chain_id |-> chain_id,
                          address |-> contract_address.address,
                          from |-> from,
                          to |-> to,
                          events |-> s]>>
    /\ UNCHANGED <<registry_vars, events, event_seq, reorged_blocks, provider, handler,
                   ingester, locks, effects, pruning>>

\* One contract deployed at the same address on two chains.
GetEventsContracts ==
    <<UnsavedContractAddress_new("initial-contract-address", <<"a", "b">>, 1, 0),
      UnsavedContractAddress_new("initial-contract-address", <<"a", "b">>, 2, 0)>>

InitGetEvents ==
    LET st == upsert_contract_addresses([rows |-> {}, seq |-> 0], GetEventsContracts) IN
    /\ contract_addresses = st.rows
    /\ contract_address_seq = st.seq
    /\ inserted_start = <<>>
    /\ nodes = {}
    /\ node_seq = 0
    /\ reset_counts = {}
    /\ events = {}
    /\ event_seq = 0
    /\ reorged_blocks = {}
    /\ provider = [chain_id \in ChainIds |-> [b \in Blocks |-> 0]]
    /\ handler = [chain_id \in ChainIds |-> [pc |-> "sleep", reorged_blocks |-> {}]]
    /\ InitTasks
    /\ now = 0
    /\ InitReplicas
    /\ config = [r \in Replicas |->
            NewConfig(GetEventsContracts, ChainIds, MaxConcurrentNodeCount, 0)]

\* The ingesters of the two chains and the fetches of their handler tasks.
NextGetEvents ==
    \/ \E r \in contract_addresses, to \in Blocks :
            IngestLogs(r, to) /\ UNCHANGED non_chain_vars
    \/ \E chain_id \in ChainIds, r \in contract_addresses, from \in Blocks, to \in Blocks :
            GetEvents(chain_id, r, from, to) /\ UNCHANGED non_chain_vars

SpecGetEvents == InitGetEvents /\ [][NextGetEvents]_vars

(***************************************************************************)
(* PruningConfig                                                           *)
(***************************************************************************)
\* u64::MAX, scaled down: block numbers are unsigned words of this range.
u64_MAX == 15

u64 == 0..u64_MAX

\* a - b on u64: the value the word holds and whether the subtraction
\* went below zero.
u64_sub(a, b) == [value |-> (a - b) % (u64_MAX + 1), underflow |-> a < b]

\* PruningConfig::get_min_block_number
get_min_block_number(self, current_block_number) ==
    IF current_block_number < self.prune_n_blocks_away
    THEN [value |-> current_block_number, underflow |-> FALSE]
    ELSE u64_sub(current_block_number, self.prune_n_blocks_away)

\* The pruning task asks for the floor at the current block of its chain.
GetMinBlockNumber(current_block_number) ==
    /\ pruning' = [pruning EXCEPT
            !.current_block_number = <<current_block_number>>,
            !.min_block_number =
                <<get_min_block_number(pruning.config, current_block_number)>>]
    /\ UNCHANGED <<registry_vars, node_vars, reset_counts, events, event_seq, reorged_blocks,
                   provider, handler, ingester, locks, effects, fetched, now, replica_vars,
                   history_vars>>

\* A PruningConfig with any prune_n_blocks_away, before its first use.
InitPruning ==
    /\ \E n \in u64 :
            pruning = [config |-> [prune_n_blocks_away |-> n],
                       current_block_number |-> <<>>,
                       min_block_number |-> <<>>]
    /\ contract_addresses = {}
    /\ contract_address_seq = 0
    /\ inserted_start = <<>>
    /\ nodes = {}
    /\ node_seq = 0
    /\ reset_counts = {}
    /\ events = {}
    /\ event_seq = 0
    /\ reorged_blocks = {}
    /\ provider = <<>>
    /\ handler = <<>>
    /\ ingester = <<>>
    /\ locks = <<>>
    /\ effects = <<>>
    /\ fetched = <<>>
    /\ now = 0
    /\ config = <<>>
    /\ pc = <<>>
    /\ result = <<>>
    /\ current_node = <<>>
    /\ wake = <<>>
    /\ active_nodes = <<>>
    /\ running = <<>>
    /\ boots = <<>>
    /\ killed = <<>>

NextPruning == \E current_block_number \in u64 : GetMinBlockNumber(current_block_number)

SpecPruning == InitPruning /\ [][NextPruning]_vars

(***************************************************************************)
(* Claims about the registry                                               *)
(***************************************************************************)
RowsWithTarget(rows, unsaved) ==
    {r \in rows : ConflictTarget(r) = ConflictTarget(unsaved)}

AfterUpsert(unsaved) == upsert_contract_addresses(Registry, <<unsaved>>)

SameCursors(r, r2) ==
    /\ r2.next_block_number_to_ingest_from = r.next_block_number_to_ingest_from
    /\ r2.next_block_number_to_handle_from = r.next_block_number_to_handle_from
    /\ r2.next_block_number_for_side_effects = r.next_block_number_for_side_effects

\* C1: in every reachable registry, an upsert of any record whose
\* (chain_id, address) is already stored leaves the three cursors of that
\* row exactly as they were, whatever start_block_number the record has.
C1_UpsertKeepsCursors ==
    \A unsaved \in UnsavedContractAddresses :
        \A r \in RowsWithTarget(contract_addresses, unsaved) :
            \E r2 \in AfterUpsert(unsaved).rows : r2.id = r.id /\ SameCursors(r, r2)

\* A row whose cursors moved apart and whose start_block_number was then
\* raised by an upsert above a cursor.
C1_Witness ==
    \E r \in contract_addresses :
        /\ r.next_block_number_for_side_effects < r.next_block_number_to_handle_from
        /\ r.next_block_number_for_side_effects < r.start_block_number

\* C2 (as stated): every stored row has
\* next_block_number_to_ingest_from >= start_block_number.
C2_CursorAtLeastStart ==
    \A r \in contract_addresses :
        r.next_block_number_to_ingest_from >= r.start_block_number

\* C2 (amended): every stored row has next_block_number_to_ingest_from >=
\* the start_block_number it was inserted with.
C2_CursorAtLeastInsertedStart ==
    \A r \in contract_addresses :
        /\ r.id \in DOMAIN inserted_start
        /\ r.next_block_number_to_ingest_from >= inserted_start[r.id]

\* A row inserted above block 0 whose start_block_number an upsert lowered
\* and whose cursor the ingester advanced, and a row registered after it
\* whose cursor advanced too.
C2_Witness ==
    \E r, r2 \in contract_addresses :
        /\ inserted_start[r.id] > 0
        /\ r.start_block_number < inserted_start[r.id]
        /\ r.next_block_number_to_ingest_from > inserted_start[r.id]
        /\ r2.id > r.id
        /\ r2.next_block_number_to_ingest_from > r2.start_block_number

\* C3: an upsert of a record whose (chain_id, address) is stored puts the
\* record's contract_name and start_block_number into that row, and the
\* table holds one row for the pair and as many rows as before.
C3_UpsertOverwrites ==
    \A unsaved \in UnsavedContractAddresses :
        RowsWithTarget(contract_addresses, unsaved) # {} =>
            LET after == AfterUpsert(unsaved).rows
                hit == RowsWithTarget(after, unsaved)
            IN  /\ Cardinality(hit) = 1
                /\ Cardinality(after) = Cardinality(contract_addresses)
                /\ \A r \in hit :
                        /\ r.contract_name = unsaved.contract_name
                        /\ r.start_block_number = unsaved.start_block_number

\* A row whose start_block_number was overwritten above its ingest cursor.
C3_Witness ==
    \E r \in contract_addresses :
        /\ r.start_block_number > r.next_block_number_to_ingest_from
        /\ r.contract_name = "updated-contract-address"

IsLowercaseChar(c) == c \in {"a", "b"}

SameLetter(c, d) == c = d \/ {c, d} = {"A", "a"} \/ {c, d} = {"B", "b"}

\* C4: an upsert for a (chain_id, address) that is not stored creates one
\* row with the address in lower case, the given start_block_number, and
\* next_block_number_to_ingest_from equal to it.
C4_UpsertCreates ==
    \A n \in ContractNames, a \in Addresses, c \in ChainIds, s \in Blocks :
        LET unsaved == UnsavedContractAddress_new(n, a, c, s)
            after == AfterUpsert(unsaved).rows
            created == after \ contract_addresses
        IN  RowsWithTarget(contract_addresses, unsaved) = {} =>
                /\ Cardinality(created) = 1
                /\ \A r \in created :
                        /\ r.chain_id = c
                        /\ Len(r.address) = Len(a)
                        /\ \A i \in DOMAIN a :
                                IsLowercaseChar(r.address[i]) /\ SameLetter(r.address[i], a[i])
                        /\ r.start_block_number = s
                        /\ r.next_block_number_to_ingest_from = s

\* Two rows, each created with a start_block_number above 0.
C4_Witness ==
    /\ Cardinality(contract_addresses) = 2
    /\ \A r \in contract_addresses :
            /\ r.start_block_number > 0
            /\ r.next_block_number_to_ingest_from = r.start_block_number
            /\ r.address = <<"a", "b">>

\* C5: upsert(X); upsert(X) leaves the rows as upsert(X) does.
C5_UpsertIdempotent ==
    \A unsaved \in UnsavedContractAddresses :
        LET once == AfterUpsert(unsaved)
            twice == upsert_contract_addresses(once, <<unsaved>>)
        IN  twice.rows = once.rows

\* Two rows with advanced cursors, one of them renamed by an upsert.
C5_Witness ==
    /\ Cardinality(contract_addresses) = 2
    /\ \E r \in contract_addresses :
            /\ r.next_block_number_to_ingest_from > r.start_block_number
            /\ r.next_block_number_to_handle_from > r.start_block_number
    /\ \E r \in contract_addresses :
            r.start_block_number > r.next_block_number_to_handle_from

(***************************************************************************)
(* Claims about the election                                               *)
(***************************************************************************)
RunningReplicas == {r \in Replicas : running[r]}

\* C6: at any instant the replicas that run indexing tasks are at most
\* max_concurrent_node_count, whatever the interleaving of the heartbeats
\* and election ticks of the replicas.
C6_AtMostMaxConcurrent ==
    \A r \in Replicas :
        Cardinality(RunningReplicas) <= config[r].max_concurrent_node_count

\* Since the death of the leader, a replica that ran no tasks then runs
\* them now.
IdleReplicaTookOver ==
    \E r \in Replicas : running[r] /\ r \notin killed[1].running

TimeSinceKill == now - killed[1].at

\* C7 as stated: 2 x node_election_rate_ms after the leader stopped, a
\* previously idle replica runs tasks (the other replicas tick on time).
C7_TakeoverWithinTwoRates ==
    (killed /= <<>> /\ TimeSinceKill > 2 * NodeElectionRateSecs) => IdleReplicaTookOver

\* C7, amended: 3 x node_election_rate_ms after the leader stopped, a
\* previously idle replica runs tasks (the other replicas tick on time).
C7_TakeoverWithinThreeRates ==
    (killed /= <<>> /\ TimeSinceKill >= 3 * NodeElectionRateSecs) => IdleReplicaTookOver

C7_Witness ==
    /\ killed /= <<>>
    /\ TimeSinceKill >= 3 * NodeElectionRateSecs
    /\ IdleReplicaTookOver
    /\ pc[killed[1].replica] = "dead"

(***************************************************************************)
(* Claims about reorganizations                                            *)
(***************************************************************************)
\* The batches of the ingester this step can be: an address whose ingest
\* cursor moved, with the logs of the blocks it moved over.
IngestedLogs(r) ==
    LET after == CHOOSE x \in contract_addresses' : x.id = r.id IN
    get_logs(r.chain_id, r.next_block_number_to_ingest_from,
             after.next_block_number_to_ingest_from - 1, {r.address})

IngesterDetectsReorg(r, b) ==
    /\ \E x \in contract_addresses' :
            /\ x.id = r.id
            /\ x.next_block_number_to_ingest_from > r.next_block_number_to_ingest_from
    /\ ReorgedBlockNumbers(IngestedLogs(r), events) /= {}
    /\ b = Min(ReorgedBlockNumbers(IngestedLogs(r), events))

\* The ingester detects a reorganization at block b: afterwards no event
\* of the chain stored before at a block >= b is left, and a new
\* ReorgedBlock of the chain with block_number b exists.
ReorgTruncates ==
    \A r \in contract_addresses, b \in Blocks :
        IngesterDetectsReorg(r, b) =>
            /\ \A e \in events' :
                    (e.chain_id = r.chain_id /\ e.block_number >= b)
                        => /\ e.id \notin {x.id : x \in events}
                           /\ e.block_hash = provider[r.chain_id][e.block_number]
            /\ \E rb \in reorged_blocks' :
                    /\ rb.block_number = b
                    /\ rb.chain_id = r.chain_id
                    /\ rb.id \notin {x.id : x \in reorged_blocks}

RewoundTo(rows, chain_id, block_number) ==
    \A r \in rows :
        r.chain_id = chain_id => r.next_block_number_to_handle_from <= block_number

MarkedHandled(rows, id) == \E rb \in rows : rb.id = id /\ rb.handled_at /= <<>>

\* When the next handler tick of the chain ends, every address of the chain
\* has its handler cursor <= b for the ReorgedBlocks the tick handled, and
\* they are marked handled.
RewoundWhenTickEnds ==
    \A chain_id \in ChainIds :
        (handler[chain_id].pc = "handle_events" /\ handler'[chain_id].pc = "sleep") =>
            \A rb \in reorged_blocks :
                rb.id \in handler[chain_id].reorged_blocks =>
                    /\ RewoundTo(contract_addresses', chain_id, rb.block_number)
                    /\ MarkedHandled(reorged_blocks', rb.id)

\* The first step of the next handler tick of the chain leaves every
\* address of the chain with its handler cursor <= b for every unhandled
\* ReorgedBlock, and marks them handled.
RewoundWhenTickStarts ==
    \A chain_id \in ChainIds :
        (handler[chain_id].pc = "sleep" /\ handler'[chain_id].pc = "handle_events") =>
            \A rb \in UnhandledReorgedBlocks(chain_id) :
                /\ RewoundTo(contract_addresses', chain_id, rb.block_number)
                /\ MarkedHandled(reorged_blocks', rb.id)

\* C9 as stated: when the ingester detects a reorganization at block b on a
\* chain, no event of the old branch at a block >= b stays stored, a
\* ReorgedBlock for b exists, and after the next handler tick every address
\* of the chain has next_block_number_to_handle_from <= b and the
\* ReorgedBlock is marked handled.
C9_RewoundAfterHandlerTick == [][ReorgTruncates /\ RewoundWhenTickEnds]_vars

\* C9, amended: as above for the events and the ReorgedBlock; the next
\* handler tick begins by setting next_block_number_to_handle_from <= b for
\* every address of the chain and marking the ReorgedBlock handled, before
\* it handles events again.
C9_RewoundByHandlerTick == [][ReorgTruncates /\ RewoundWhenTickStarts]_vars

\* A detected reorganization is handled: old events gone, events of the new
\* branch stored from the reorged block on, cursors rewound.
C9_Witness ==
    \E rb \in reorged_blocks :
        /\ rb.handled_at /= <<>>
        /\ handler[rb.chain_id].pc = "handle_events"
        /\ rb.id \in handler[rb.chain_id].reorged_blocks
        /\ RewoundTo(contract_addresses, rb.chain_id, rb.block_number)
        /\ \E e \in events :
                /\ e.chain_id = rb.chain_id
                /\ e.block_number >= rb.block_number
                /\ e.block_hash = provider[rb.chain_id][e.block_number]
        /\ \E r \in contract_addresses :
                /\ r.chain_id = rb.chain_id
                /\ r.next_block_number_to_ingest_from > rb.block_number
                /\ get_events(events, r.address, rb.block_number, MaxBlock) = {}

(***************************************************************************)
(* Claims about the boot                                                   *)
(***************************************************************************)
Called(r) == pc[r] /= "index_states"

\* The replica's call touched nothing: no node row, no run of
\* booting::setup, no task spawned.
TouchedNothing(r) ==
    /\ pc[r] = "returned"
    /\ current_node[r] = 0
    /\ ~running[r]
    /\ \A i \in DOMAIN boots : boots[i].replica /= r

\* C8: index_states with no contracts returns NoContract (also with no
\* chains), with contracts and no chains it returns NoChain, and in both
\* cases it creates no node row, runs no reset or registry upsert and
\* spawns no task.
C8_InvalidConfigAbortsStartup ==
    /\ \A r \in Replicas :
        /\ (Called(r) /\ config[r].contracts = <<>>)
                => (result[r] = "NoContract" /\ TouchedNothing(r))
        /\ (Called(r) /\ config[r].contracts /= <<>> /\ config[r].chains = {})
                => (result[r] = "NoChain" /\ TouchedNothing(r))
    /\ Cardinality(nodes) = Cardinality({r \in Replicas : current_node[r] /= 0})
    /\ (\A r \in Replicas : config[r].contracts = <<>> \/ config[r].chains = {})
            => (nodes = {} /\ reset_counts = {} /\ contract_addresses = {})

C8_Witness ==
    \E r1, r2 \in Replicas :
        /\ config[r1].contracts = <<>> /\ config[r1].chains = {}
        /\ result[r1] = "NoContract" /\ pc[r1] = "returned"
        /\ config[r2].contracts /= <<>> /\ config[r2].chains = {}
        /\ result[r2] = "NoChain" /\ pc[r2] = "returned"
        /\ nodes = {}

\* C10: a boot resets if and only if the configured reset_count exceeds the
\* last stored ResetCount; the reset empties events, reorged blocks and
\* handler cursors, appends exactly one ResetCount row and leaves the node
\* rows untouched; a later boot with the same reset_count resets nothing
\* and deletes no events.
C10_ResetOncePerResetCount ==
    \A i \in DOMAIN boots :
        LET boot == boots[i] IN
        /\ (boot.reset_counts_appended > 0) <=> (boot.reset_count > boot.last_reset_count)
        /\ (boot.reset_counts_appended > 0) =>
                /\ boot.reset_counts_appended = 1
                /\ boot.events_left = 0
                /\ boot.reorged_blocks_left = 0
                /\ boot.cursors_left = 0
        /\ boot.nodes_untouched
        /\ \A j \in 1..(i - 1) :
                boots[j].reset_count = boot.reset_count =>
                    /\ boot.reset_counts_appended = 0
                    /\ boot.events_deleted = 0

(***************************************************************************)
(* Claims about the heartbeat, the startup and the orchestrator            *)
(***************************************************************************)
ElectionRateSecs(r) == Secs(get_node_election_rate_ms(config[r]))

ReadsActiveNodes(r) == pc[r] = "get_active_nodes" /\ pc'[r] = "orchestrate"

\* C16: get_active_nodes returns exactly the rows with
\* last_active_at >= now - 2 x node_election_rate_ms; a node whose last
\* heartbeat lies on the threshold is returned, no older one is.
C16_ActiveAtThreshold ==
    [][\A r \in Replicas :
        ReadsActiveNodes(r) =>
            active_nodes'[r] =
                {n.id : n \in {m \in nodes :
                    m.last_active_at >= now - 2 * ElectionRateSecs(r)}}]_vars

\* C17: the list of active nodes a replica passes to orchestrate contains
\* the replica's own node.
C17_OwnNodeIsActive ==
    \A r \in Replicas : pc[r] = "orchestrate" => current_node[r] \in active_nodes[r]

BeforeSleepEnds(r) == pc[r] \in {"index_states", "create_node", "wait"}

BootRecorded(r) == \E i \in DOMAIN boots : boots[i].replica = r

\* What one step of a replica's startup does, and what holds after it.
StartupInOrder(r) ==
    /\ (pc[r] /= "wait" /\ pc'[r] = "wait") =>
            /\ \E n \in nodes' \ nodes :
                    n.id = current_node'[r] /\ n.last_active_at = now
            /\ wake'[r] = now + ElectionRateSecs(r)
    /\ (pc[r] = "wait" /\ pc'[r] /= "wait") =>
            /\ pc'[r] = "setup"
            /\ now >= wake[r]
            /\ \E n \in nodes :
                    /\ n.id = current_node[r]
                    /\ now >= n.last_active_at + ElectionRateSecs(r)
    /\ (pc[r] /= "setup" /\ pc'[r] = "setup") => pc[r] = "wait"
    /\ (InLoop(r))' => (pc[r] = "setup" \/ InLoop(r))
    /\ (BeforeSleepEnds(r) \/ pc[r] = "setup")' =>
            /\ ~running'[r]
            /\ active_nodes'[r] = {}
            /\ \A i \in DOMAIN boots' : boots'[i].replica /= r

\* C18: a replica inserts its node row, sleeps one full
\* node_election_rate_ms, and only then runs booting::setup and its first
\* election tick; none of its tasks starts before the sleep has ended.
C18_SleepsBeforeSetup == [][\A r \in Replicas : StartupInOrder(r)]_vars

C18_Witness ==
    \E r \in Replicas :
        /\ running[r]
        /\ BootRecorded(r)
        /\ \E n \in nodes : n.id = current_node[r]
        /\ now >= ElectionRateSecs(r)

OrchestratorTicks(r) == pc[r] = "orchestrate" /\ pc'[r] = "interval_tick"

ObservedActiveSet(r) == ActiveSet(active_nodes[r], config[r].max_concurrent_node_count)

Stored(l) == \E e \in events : UniqueKey(e) = UniqueKey(l)

\* The batch of replica r holds logs, all of them stored already.
Replayed(r) ==
    /\ ingester[r].pc = "batch"
    /\ ingester[r].logs /= {}
    /\ \A l \in ingester[r].logs : Stored(l)

UniqueEvents ==
    \A e1, e2 \in events : UniqueKey(e1) = UniqueKey(e2) => e1 = e2

\* C11: committing a batch whose logs are stored already leaves the stored
\* events unchanged and does not fail the ingester; no two stored events
\* share (transaction_hash, log_index, chain_id).
C11_ReplayIsNoOp ==
    [][/\ \A r \in Replicas :
            (Replayed(r) /\ CommitBatch(r, "none")) =>
                /\ events' = events
                /\ ingester'[r].pc /= "failed"
       /\ UniqueEvents']_vars

EventsOf(chain_id) == {e \in events : e.chain_id = chain_id}

\* C12 as claimed: per chain, without reorganizations, the events taken in
\* the order (block_number, log_index) are prefix-stable: a tick of an
\* ingester only appends after the events stored before it, also after a
\* handler registered a contract address with include_contract_in_indexing.
C12_AppendsPerChain ==
    [][\A chain_id \in ChainIds :
        /\ EventsOf(chain_id) \subseteq EventsOf(chain_id)'
        /\ \A e \in EventsOf(chain_id), f \in EventsOf(chain_id)' \ EventsOf(chain_id) :
                OrderedBefore(e, f)]_vars

\* C12 as amended: the same per chain and contract address; the events of
\* an address only grow at their end.
C12_AppendsPerAddress ==
    [][\A chain_id \in ChainIds :
        /\ EventsOf(chain_id) \subseteq EventsOf(chain_id)'
        /\ \A e \in EventsOf(chain_id), f \in EventsOf(chain_id)' \ EventsOf(chain_id) :
                e.contract_address = f.contract_address => OrderedBefore(e, f)]_vars

\* The address a handler registered has an event, and the factory has an
\* event stored after it that comes before it in the order of the chain.
C12_Witness ==
    /\ \E a \in contract_addresses : a.address = <<"c", "d">>
    /\ \E e, f \in events :
        /\ e.contract_address = <<"c", "d">>
        /\ f.contract_address = <<"a", "b">>
        /\ e.id < f.id
        /\ OrderedBefore(f, e)

InBatch(chain_id) ==
    {r \in Replicas : ingester[r].pc = "batch" /\ ingester[r].chain_id = chain_id}

C15_IngestCursorMonotonic ==
    [][\A a \in contract_addresses : \A b \in contract_addresses' :
        b.id = a.id =>
            b.next_block_number_to_ingest_from >= a.next_block_number_to_ingest_from]_vars

CursorOf(rows, id) ==
    (CHOOSE a \in rows : a.id = id).next_block_number_to_ingest_from

TimesApplied(e) == Cardinality({i \in DOMAIN effects : effects[i] = e.id})

HandlerCursorOf(e) ==
    (CHOOSE a \in contract_addresses :
        a.address = e.contract_address /\ a.chain_id = e.chain_id
    ).next_block_number_to_handle_from

Fetches == fetched' /= fetched

\* C21: the sequence get_events(address, from, to) returns is ascending in
\* (block_number, log_index) and holds exactly the stored events of the
\* address with from <= block_number <= to.
C21_FetchedAscending ==
    [][Fetches =>
        LET f == fetched'[1] IN
        /\ \A i, j \in DOMAIN f.events :
                i < j => ~OrderedBefore(f.events[j], f.events[i])
        /\ {f.events[i] : i \in DOMAIN f.events} =
                {e \in events : /\ e.contract_address = to_lowercase(f.address)
                                /\ f.from <= e.block_number
                                /\ e.block_number <= f.to}]_vars

\* C23: get_events called by the handler task of a chain returns no event
\* of another chain, also for an address registered on two chains.
C23_FetchedWithinChain ==
    [][Fetches =>
        LET f == fetched'[1] IN
        \A i \in DOMAIN f.events : f.events[i].chain_id = f.chain_id]_vars

(***************************************************************************)
(* Claims about include_contract_in_indexing                               *)
(***************************************************************************)
RegisteredOn(chain_id, address) ==
    {r \in contract_addresses : r.chain_id = chain_id /\ r.address = to_lowercase(address)}

\* C22: include_contract_in_indexing registers the address on the chain of
\* the handler's event with start_block_number = the event's block_number;
\* for a (chain_id, address) registered already it changes nothing: the
\* row keeps its contract_name, start_block_number and three cursors.
C22_IncludeRegistersOrKeeps ==
    [][\A e \in HandledEvents, contract_name \in ContractNames :
        IncludeContractInIndexing(e, contract_name, <<"c", "d">>) =>
            IF RegisteredOn(e.chain_id, <<"c", "d">>) /= {}
            THEN contract_addresses' = contract_addresses
            ELSE \E r \in contract_addresses' \ contract_addresses :
                    /\ contract_addresses' = contract_addresses \cup {r}
                    /\ r.chain_id = e.chain_id
                    /\ r.address = <<"c", "d">>
                    /\ r.contract_name = contract_name
                    /\ r.start_block_number = e.block_number]_vars

\* A handler registered the address from the block of its event, the
\* ingester has moved the row's cursor since, and a handler can call again
\* with another name for an event of another block.
C22_Witness ==
    \E r \in RegisteredOn(1, <<"c", "d">>) :
        /\ r.contract_name = "updated-contract-address"
        /\ r.start_block_number = 1
        /\ r.next_block_number_to_ingest_from > r.start_block_number
        /\ \E e \in HandledEvents :
                e.chain_id = r.chain_id /\ e.block_number /= r.start_block_number

(***************************************************************************)
(* Claims about pruning                                                    *)
(***************************************************************************)
Max0(x) == IF x < 0 THEN 0 ELSE x

\* C24: get_min_block_number never underflows, is at most the current
\* block number c and at most max(0, c - prune_n_blocks_away): no block
\* within prune_n_blocks_away of c is below the floor.
C24_FloorRetainsRecentBlocks ==
    pruning.min_block_number /= <<>> =>
        LET c == pruning.current_block_number[1]
            n == pruning.config.prune_n_blocks_away
            floor == pruning.min_block_number[1]
        IN  /\ ~floor.underflow
            /\ floor.value <= c
            /\ floor.value <= Max0(c - n)

====
